---- MODULE Spec2Model ----
(***************************************************************************)
(* Model of the CPU provision assembler of katalyst-core's sysadvisor:     *)
(* ProvisionAssemblerCommon.AssembleProvision and its helpers.             *)
(*                                                                         *)
(* One call of AssembleProvision is modelled as Begin, one VisitRegion     *)
(* step per region of the region map (Go iterates a map in an unspecified  *)
(* order, so the next region is any region not yet visited), and Finish.   *)
(* Return ends the call and keeps its result for comparison with the next  *)
(* call; AddIgnoredRegion is the region subsystem adding a region of an    *)
(* unhandled type between two calls.                                       *)
(*                                                                         *)
(* The capture timestamp of the result and the log line are left out.      *)
(* GetPods hands out a copy of the region's pod set, so PopAny changes     *)
(* nothing the next call reads; a DedicatedNumaExclusive region binds one  *)
(* NUMA id, as the comment at ToSliceInt()[0] says.  Pool and region names *)
(* are never "reserve" or "reclaim".                                       *)
(***************************************************************************)
EXTENDS Integers, FiniteSets, Sequences, TLC

\* ------------------------------------------------------------------ bounds

\* largest control knob value (CPU count) a region reports
MaxCPU == 2
\* largest numaAvailable value of one NUMA node
MaxAvail == 2
\* largest reservedForReclaim value of one NUMA node
MaxReserved == 1
\* number of AssembleProvision calls in one behaviour
MaxCalls == 2

\* --------------------------------------------------------------- constants

\* cpuadvisor.FakedNUMAID: the node-wide sentinel NUMA id
FakedNUMAID == -1
\* state.PoolNameReserve, state.PoolNameReclaim
PoolNameReserve == "reserve"
PoolNameReclaim == "reclaim"

\* types.QoSRegionType values; TypeOther stands for any type the switch
\* of AssembleProvision has no case for
QoSRegionTypeShare == "share"
QoSRegionTypeIsolation == "isolation"
QoSRegionTypeDedicatedNumaExclusive == "dedicated-numa-exclusive"
QoSRegionTypeOther == "other"

\* error values returned by AssembleProvision
NoError == "nil"
RegionProvisionError == "RegionProvisionError"
InvalidRegionAssignment == "InvalidRegionAssignment"
ReclaimPolicyLookupError == "ReclaimPolicyLookupError"

\* ------------------------------------------------------------ input domains

NumaIds == {0, 1}
\* keys of the region map; a region's Name() is its key
RegionNames == {"r1", "r2"}
\* key of the region of an unhandled type added between calls
IgnoredRegionName == "r9"
\* owner pool names of Share regions; "r1" is also a region name, so an
\* Isolation region named r1 collides with the share pool r1
PoolNames == {"share", "r1"}
PodUIDs == {"pod-a", "pod-b"}

\* ------------------------------------------------------------------- maps

\* Go maps are functions with a finite domain; a missing key is a key
\* outside the domain
EmptyMap == [k \in {} |-> 0]

Put(m, k, v) == [x \in (DOMAIN m) \cup {k} |-> IF x = k THEN v ELSE m[x]]

RECURSIVE SumOver(_, _)
\* sum of m[k] over the keys k of S that m has
SumOver(S, m) ==
  IF S = {} THEN 0
  ELSE LET k == CHOOSE x \in S : TRUE
       IN  (IF k \in DOMAIN m THEN m[k] ELSE 0) + SumOver(S \ {k}, m)

\* general.SumUpMapValues
SumUpMapValues(m) == SumOver(DOMAIN m, m)

\* general.MergeMapInt: the second map overrides the first
MergeMapInt(src, override) ==
  [k \in (DOMAIN src) \cup (DOMAIN override) |->
     IF k \in DOMAIN override THEN override[k] ELSE src[k]]

\* machine.CPUSet.ToSliceInt()[0]: the smallest id of the set
FirstNuma(numas) == CHOOSE n \in numas : \A m \in numas : n <= m

\* InternalCPUCalculationResult.SetPoolEntry
SetPoolEntry(entries, poolName, numaID, poolSize) ==
  Put(entries, poolName,
      Put(IF poolName \in DOMAIN entries THEN entries[poolName] ELSE EmptyMap,
          numaID, poolSize))

RECURSIVE SetPoolEntries(_, _, _)
\* one SetPoolEntry at the sentinel NUMA id per key of sizes
SetPoolEntries(entries, sizes, keys) ==
  IF keys = {} THEN entries
  ELSE LET k == CHOOSE x \in keys : TRUE
       IN  SetPoolEntries(SetPoolEntry(entries, k, FakedNUMAID, sizes[k]),
                          sizes, keys \ {k})

\* getNumasAvailableResource: sum of numaAvailable over numas, missing as 0
getNumasAvailableResource(avail, numas) == SumOver(numas, avail)

\* ---------------------------------------------------------- the regulator

\* faulty variant of regulatePoolSizes: with reclaim disabled the demand is
\* never cut down
regulatePoolSizesUncutWithoutReclaim(poolSizes, available, enableReclaim) ==
  LET total == SumUpMapValues(poolSizes)
  IN  IF total <= available \/ ~enableReclaim
      THEN [sizes |-> poolSizes, boundUpper |-> total <= available]
      ELSE [sizes |-> [k \in DOMAIN poolSizes |->
                         (poolSizes[k] * available) \div total],
            boundUpper |-> FALSE]

\* regulatePoolSizes: demand that fits is left unchanged (boundUpper TRUE);
\* demand above available is scaled down proportionally, floored, and the
\* rounding remainder goes to the pool with the largest demand
regulatePoolSizes(poolSizes, available, enableReclaim) ==
  LET total == SumUpMapValues(poolSizes)
  IN  IF total <= available
      THEN [sizes |-> poolSizes, boundUpper |-> TRUE]
      ELSE LET scaled  == [k \in DOMAIN poolSizes |->
                             (poolSizes[k] * available) \div total]
               rest    == available - SumUpMapValues(scaled)
               largest == CHOOSE k \in DOMAIN poolSizes :
                            \A j \in DOMAIN poolSizes : poolSizes[k] >= poolSizes[j]
           IN  [sizes |-> [scaled EXCEPT ![largest] = @ + rest],
                boundUpper |-> FALSE]

\* ------------------------------------------------------------------ state

VARIABLES
  \* the fields of ProvisionAssemblerCommon and what its collaborators answer
  regionMap,            \* *pa.regionMap: region name -> region
  reservedForReclaim,   \* *pa.reservedForReclaim: NUMA id -> CPU count
  numaAvailable,        \* *pa.numaAvailable: NUMA id -> CPU count
  nonBindingNumas,      \* *pa.nonBindingNumas
  nodeEnableReclaim,    \* pa.conf.GetDynamicConfiguration().EnableReclaim
  reservePoolSize,      \* pa.metaReader.GetPoolSize(state.PoolNameReserve)
  \* the position in AssembleProvision and its locals
  pc,                   \* "idle", "loop" (the range over regionMap), "done"
  todo,                 \* names of the regions the range has not visited yet
  calculationResult,    \* calculationResult.PoolEntries
  shares,
  isolationUppers,
  sharePoolSizes,
  isolationUpperSizes,
  isolationLowerSizes,
  shareAndIsolatedPoolAvailable,
  demand,               \* shareAndIsolatePoolSizes as handed to regulatePoolSizes
  shareAndIsolatePoolSizes, \* shareAndIsolatePoolSizes after regulatePoolSizes
  \* what the call returned, and the calls before it
  ret,                  \* [PoolEntries, boundUpper, err]
  prev,                 \* what the previous call returned
  calls,                \* number of calls that returned
  added                 \* a region of an unhandled type was added since prev

inputs == <<regionMap, reservedForReclaim, numaAvailable, nonBindingNumas,
            nodeEnableReclaim, reservePoolSize>>
locals == <<calculationResult, shares, isolationUppers, sharePoolSizes,
            isolationUpperSizes, isolationLowerSizes,
            shareAndIsolatedPoolAvailable, demand, shareAndIsolatePoolSizes>>
vars == <<inputs, pc, todo, locals, ret, prev, calls, added>>

\* ----------------------------------------------------------------- regions

\* What AssembleProvision reads of a region.QoSRegion: Type(), OwnerPoolName(),
\* GetBindingNumas(), GetPods(), whether GetProvision() fails, the three
\* control knobs it returns, and what helper.PodEnableReclaim answers for
\* the region's pod ("enabled", "disabled" or "error")
Region(type, pool, numas, pods, provErr, podReclaim, size, upper, lower) ==
  [Type |-> type, OwnerPoolName |-> pool, BindingNumas |-> numas, Pods |-> pods,
   provErr |-> provErr, podReclaim |-> podReclaim,
   NonReclaimedCPUSize |-> size, NonReclaimedCPUSizeUpper |-> upper,
   NonReclaimedCPUSizeLower |-> lower]

CPUSizes == 0 .. MaxCPU

\* fields the code never reads for a region of that type hold a fixed value;
\* an Isolation region's lower size (its requests) is at most its upper size
\* (its limits)
ShareRegions ==
  { Region(QoSRegionTypeShare, p, {}, {}, FALSE, "disabled", s, 0, 0) :
      p \in PoolNames, s \in CPUSizes }

IsolationRegions ==
  { Region(QoSRegionTypeIsolation, "isolation", {}, {}, FALSE, "disabled", 0,
           ul[1], ul[2]) : ul \in { x \in CPUSizes \X CPUSizes : x[2] <= x[1] } }

DedicatedRegions ==
  { Region(QoSRegionTypeDedicatedNumaExclusive, "dedicated", {n}, {"pod-a"},
           FALSE, "enabled", s, 0, 0) : n \in NumaIds, s \in CPUSizes }
  \cup
  { Region(QoSRegionTypeDedicatedNumaExclusive, "dedicated", {n}, {"pod-a"},
           FALSE, o, 0, 0, 0) : n \in NumaIds, o \in {"disabled", "error"} }
  \cup
  { Region(QoSRegionTypeDedicatedNumaExclusive, "dedicated", {n}, pods,
           FALSE, "disabled", 0, 0, 0) : n \in NumaIds, pods \in {{}, PodUIDs} }

IgnoredRegions ==
  { Region(QoSRegionTypeOther, "other", {}, {}, e, "disabled", 0, 0, 0) :
      e \in BOOLEAN }

FailingRegions ==
  { Region(QoSRegionTypeShare, "share", {}, {}, TRUE, "disabled", 0, 0, 0) }

\* the regions of an initial snapshot; a region whose GetProvision fails
\* never has its type read
Regions ==
  ShareRegions \cup IsolationRegions \cup DedicatedRegions
    \cup { reg \in IgnoredRegions : ~reg.provErr } \cup FailingRegions

RegionMaps == UNION { [D -> Regions] : D \in SUBSET RegionNames }

NamesOfType(rm, t) == { r \in DOMAIN rm : rm[r].Type = t }

\* The data model's invariants on a region snapshot: Share regions own
\* distinct pools, no Isolation region is named like a share pool, and
\* DedicatedNumaExclusive regions bind distinct NUMA ids
SharePoolsDistinct(rm) ==
  \A a, b \in NamesOfType(rm, QoSRegionTypeShare) :
    a # b => rm[a].OwnerPoolName # rm[b].OwnerPoolName

IsolationNamesApart(rm) ==
  \A a \in NamesOfType(rm, QoSRegionTypeIsolation),
     b \in NamesOfType(rm, QoSRegionTypeShare) : a # rm[b].OwnerPoolName

DedicatedNumasDistinct(rm) ==
  \A a, b \in NamesOfType(rm, QoSRegionTypeDedicatedNumaExclusive) :
    a # b => rm[a].BindingNumas \cap rm[b].BindingNumas = {}

DistinctKeys(rm) ==
  /\ SharePoolsDistinct(rm)
  /\ IsolationNamesApart(rm)
  /\ DedicatedNumasDistinct(rm)

\* NUMA ids bound by the DedicatedNumaExclusive regions of a snapshot
BoundNumas(rm) ==
  UNION { rm[r].BindingNumas : r \in NamesOfType(rm, QoSRegionTypeDedicatedNumaExclusive) }

\* capacity maps; a NUMA id may be missing from a map
AvailMaps == [NumaIds -> 0 .. MaxAvail] \cup { [n \in {1} |-> MaxAvail] }
ReservedMaps == [NumaIds -> 0 .. MaxReserved] \cup { [n \in {0} |-> MaxReserved] }
\* the capacity maps of the snapshots with colliding keys
FewAvailMaps == { [n \in NumaIds |-> MaxAvail - n], [n \in {1} |-> MaxAvail] }
FewReservedMaps == { [n \in NumaIds |-> n], [n \in {0} |-> MaxReserved] }

\* --------------------------------------------------------- AssembleProvision

\* pa.getNumasReservedForReclaim: ids missing from the map count as zero
getNumasReservedForReclaim(numas) ==
  SumOver(numas, reservedForReclaim)

\* faulty variant of FailResult: the result assembled so far is returned
FailResultPartial(err) ==
  [PoolEntries |-> calculationResult, boundUpper |-> FALSE, err |-> err]

\* the value of a failed call: types.InternalCPUCalculationResult{}, false, err
FailResult(err) ==
  [PoolEntries |-> EmptyMap, boundUpper |-> FALSE, err |-> err]

\* faulty variant of NotOnePod: only more than one pod is refused
MoreThanOnePod(podSet) == Cardinality(podSet) > 1

\* podSet.Pods() != 1
NotOnePod(podSet) == Cardinality(podSet) # 1

\* faulty variant of IsShareCase: the share case is the default case
IsShareCaseByDefault(type) ==
  type \notin {QoSRegionTypeIsolation, QoSRegionTypeDedicatedNumaExclusive}

\* the switch on r.Type(): which case a region type selects
IsShareCase(type) == type = QoSRegionTypeShare
IsIsolationCase(type) == type = QoSRegionTypeIsolation
IsDedicatedCase(type) == type = QoSRegionTypeDedicatedNumaExclusive

\* faulty variant of AddShares: the total is assigned, not added to
AssignShares(total, poolSizes, poolName) == poolSizes[poolName]

\* shares += sharePoolSizes[r.OwnerPoolName()]
AddShares(total, poolSizes, poolName) == total + poolSizes[poolName]

\* faulty variant of IsolationKey: the owner pool name is the key
IsolationKeyByOwnerPool(name, reg) == reg.OwnerPoolName

\* the key of an Isolation region's sizes: r.Name()
IsolationKey(name, reg) == name

\* isolationUppers += isolationUpperSizes[r.Name()]
AddIsolationUppers(total, upperSizes, name) == total + upperSizes[name]

\* faulty variant of DedicatedReclaimEntry: an entry is written only when
\* it is positive, whatever the pod's reclaim policy
DedicatedReclaimEntryPositiveOnly(entries, reg, enableReclaim) ==
  LET regionNuma == FirstNuma(reg.BindingNumas)
      reserved   == getNumasReservedForReclaim(reg.BindingNumas)
      available  == getNumasAvailableResource(numaAvailable, reg.BindingNumas)
      reclaimed  == IF enableReclaim
                    THEN available - reg.NonReclaimedCPUSize + reserved
                    ELSE reserved
  IN  IF reclaimed > 0
      THEN SetPoolEntry(entries, PoolNameReclaim, regionNuma, reclaimed)
      ELSE entries

\* the reclaim pool entry of a DedicatedNumaExclusive region, written into
\* entries: the reservation when it is positive and the pod's reclaim is
\* disabled, available - NonReclaimedCPUSize + reservation when it is enabled
DedicatedReclaimEntry(entries, reg, enableReclaim) ==
  LET regionNuma == FirstNuma(reg.BindingNumas)
      reserved   == getNumasReservedForReclaim(reg.BindingNumas)
  IN  IF ~enableReclaim
      THEN IF reserved > 0
           THEN SetPoolEntry(entries, PoolNameReclaim, regionNuma, reserved)
           ELSE entries
      ELSE LET available == getNumasAvailableResource(numaAvailable, reg.BindingNumas)
               reclaimed == available - reg.NonReclaimedCPUSize + reserved
           IN  SetPoolEntry(entries, PoolNameReclaim, regionNuma, reclaimed)

\* faulty variant of FallBackToLower: falls back already at equality
FallBackToLowerAtEquality(sharesTotal, uppersTotal, available) ==
  sharesTotal + uppersTotal >= available

\* shares+isolationUppers > shareAndIsolatedPoolAvailable: fall back to the
\* isolation lower sizes
FallBackToLower(sharesTotal, uppersTotal, available) ==
  sharesTotal + uppersTotal > available

\* faulty variant of ReclaimPoolSizeOfNonBindingNumas: the reservation is
\* left out when node reclaim is enabled
ReclaimPoolSizeWithoutReservation(available, regulated) ==
  IF nodeEnableReclaim
  THEN available - SumUpMapValues(regulated)
  ELSE getNumasReservedForReclaim(nonBindingNumas)

\* reclaimPoolSizeOfNonBindingNumas
ReclaimPoolSizeOfNonBindingNumas(available, regulated) ==
  IF nodeEnableReclaim
  THEN available - SumUpMapValues(regulated)
         + getNumasReservedForReclaim(nonBindingNumas)
  ELSE getNumasReservedForReclaim(nonBindingNumas)

\* the call starts: the result is made and the reserve entry written
Begin ==
  /\ pc = "idle"
  /\ calls < MaxCalls
  /\ pc' = "loop"
  /\ todo' = DOMAIN regionMap
  /\ calculationResult' =
       SetPoolEntry(EmptyMap, PoolNameReserve, FakedNUMAID, reservePoolSize)
  /\ shares' = 0
  /\ isolationUppers' = 0
  /\ sharePoolSizes' = EmptyMap
  /\ isolationUpperSizes' = EmptyMap
  /\ isolationLowerSizes' = EmptyMap
  /\ shareAndIsolatedPoolAvailable' = 0
  /\ demand' = EmptyMap
  /\ shareAndIsolatePoolSizes' = EmptyMap
  /\ UNCHANGED <<inputs, ret, prev, calls, added>>

\* a failed step returns at once
Fail(err) ==
  /\ pc' = "done"
  /\ ret' = FailResult(err)
  /\ UNCHANGED <<todo, locals>>

\* one iteration of the range over the region map, for region r
VisitRegion(r) ==
  /\ pc = "loop"
  /\ r \in todo
  /\ LET reg == regionMap[r]
     IN  IF reg.provErr
         THEN Fail(RegionProvisionError)
         ELSE IF IsShareCase(reg.Type)
         THEN LET sizes == Put(sharePoolSizes, reg.OwnerPoolName, reg.NonReclaimedCPUSize)
              IN  /\ sharePoolSizes' = sizes
                  /\ shares' = AddShares(shares, sizes, reg.OwnerPoolName)
                  /\ todo' = todo \ {r}
                  /\ UNCHANGED <<pc, ret, calculationResult, isolationUppers,
                                 isolationUpperSizes, isolationLowerSizes,
                                 shareAndIsolatedPoolAvailable, demand,
                                 shareAndIsolatePoolSizes>>
         ELSE IF IsIsolationCase(reg.Type)
         THEN LET key    == IsolationKey(r, reg)
                  uppers == Put(isolationUpperSizes, key, reg.NonReclaimedCPUSizeUpper)
              IN  /\ isolationUpperSizes' = uppers
                  /\ isolationLowerSizes' =
                       Put(isolationLowerSizes, key, reg.NonReclaimedCPUSizeLower)
                  /\ isolationUppers' = AddIsolationUppers(isolationUppers, uppers, key)
                  /\ todo' = todo \ {r}
                  /\ UNCHANGED <<pc, ret, calculationResult, shares, sharePoolSizes,
                                 shareAndIsolatedPoolAvailable, demand,
                                 shareAndIsolatePoolSizes>>
         ELSE IF IsDedicatedCase(reg.Type)
         THEN IF NotOnePod(reg.Pods)
              THEN Fail(InvalidRegionAssignment)
              ELSE IF reg.podReclaim = "error"
              THEN Fail(ReclaimPolicyLookupError)
              ELSE /\ calculationResult' =
                        DedicatedReclaimEntry(calculationResult, reg,
                                              reg.podReclaim = "enabled")
                   /\ todo' = todo \ {r}
                   /\ UNCHANGED <<pc, ret, shares, isolationUppers, sharePoolSizes,
                                  isolationUpperSizes, isolationLowerSizes,
                                  shareAndIsolatedPoolAvailable, demand,
                                  shareAndIsolatePoolSizes>>
         ELSE /\ todo' = todo \ {r}
              /\ UNCHANGED <<pc, ret, locals>>
  /\ UNCHANGED <<inputs, prev, calls, added>>

\* after the range: the fallback decision, the regulator, the share and
\* isolation entries, the node-wide reclaim entry, the return
Finish ==
  /\ pc = "loop"
  /\ todo = {}
  /\ LET available == getNumasAvailableResource(numaAvailable, nonBindingNumas)
         handed    == IF FallBackToLower(shares, isolationUppers, available)
                      THEN MergeMapInt(sharePoolSizes, isolationLowerSizes)
                      ELSE MergeMapInt(sharePoolSizes, isolationUpperSizes)
         regulated == regulatePoolSizes(handed, available, nodeEnableReclaim)
         entries   == SetPoolEntries(calculationResult, regulated.sizes,
                                     DOMAIN regulated.sizes)
         final     == SetPoolEntry(entries, PoolNameReclaim, FakedNUMAID,
                        ReclaimPoolSizeOfNonBindingNumas(available, regulated.sizes))
     IN  /\ shareAndIsolatedPoolAvailable' = available
         /\ demand' = handed
         /\ shareAndIsolatePoolSizes' = regulated.sizes
         /\ calculationResult' = final
         /\ ret' = [PoolEntries |-> final, boundUpper |-> regulated.boundUpper,
                    err |-> NoError]
  /\ pc' = "done"
  /\ UNCHANGED <<inputs, todo, shares, isolationUppers, sharePoolSizes,
                 isolationUpperSizes, isolationLowerSizes, prev, calls, added>>

\* the caller has the result; the next control cycle may call again
Return ==
  /\ pc = "done"
  /\ pc' = "idle"
  /\ prev' = ret
  /\ calls' = calls + 1
  /\ added' = FALSE
  /\ UNCHANGED <<inputs, todo, locals, ret>>

\* between two calls the region subsystem adds a region whose type
\* AssembleProvision has no case for
AddIgnoredRegion(reg) ==
  /\ pc = "idle"
  /\ calls > 0
  /\ calls < MaxCalls
  /\ IgnoredRegionName \notin DOMAIN regionMap
  /\ regionMap' = Put(regionMap, IgnoredRegionName, reg)
  /\ added' = TRUE
  /\ UNCHANGED <<reservedForReclaim, numaAvailable, nonBindingNumas,
                 nodeEnableReclaim, reservePoolSize, pc, todo, locals, ret,
                 prev, calls>>

NoResult == [PoolEntries |-> EmptyMap, boundUpper |-> FALSE, err |-> "none"]

\* the state of a new assembler over the inputs the caller hands it
InitWith(rm, reserved, avail, nonBinding, enable, reserve) ==
  /\ regionMap = rm
  /\ reservedForReclaim = reserved
  /\ numaAvailable = avail
  /\ nonBindingNumas = nonBinding
  /\ nodeEnableReclaim = enable
  /\ reservePoolSize = reserve
  /\ pc = "idle"
  /\ todo = {}
  /\ calculationResult = EmptyMap
  /\ shares = 0
  /\ isolationUppers = 0
  /\ sharePoolSizes = EmptyMap
  /\ isolationUpperSizes = EmptyMap
  /\ isolationLowerSizes = EmptyMap
  /\ shareAndIsolatedPoolAvailable = 0
  /\ demand = EmptyMap
  /\ shareAndIsolatePoolSizes = EmptyMap
  /\ ret = NoResult
  /\ prev = NoResult
  /\ calls = 0
  /\ added = FALSE

\* metaReader.GetPoolSize(state.PoolNameReserve)
ReservePoolSize == 2

\* the two concrete scenarios of the specification: a Share region of size 5
\* beside an exclusively bound NUMA 0, and a DedicatedNumaExclusive region on
\* NUMA 0 whose reservation is 3
InitScenario ==
  \/ InitWith([r \in {"r1"} |->
                 Region(QoSRegionTypeShare, "share", {}, {}, FALSE, "disabled", 5, 0, 0)],
              [n \in NumaIds |-> 1], [n \in NumaIds |-> 10], {1}, TRUE,
              ReservePoolSize)
  \/ \E o \in {"enabled", "disabled"} :
       InitWith([r \in {"r1"} |->
                   Region(QoSRegionTypeDedicatedNumaExclusive, "dedicated", {0},
                          {"pod-a"}, FALSE, o, 4, 0, 0)],
                [n \in NumaIds |-> 3], [n \in NumaIds |-> 10], {1}, FALSE,
                ReservePoolSize)

\* snapshots that keep the data model's invariants: distinct keys, and the
\* non-binding NUMA ids are those no DedicatedNumaExclusive region binds
Init ==
  \/ \E rm \in {m \in RegionMaps : DistinctKeys(m)},
        reserved \in ReservedMaps, avail \in AvailMaps, enable \in BOOLEAN :
       InitWith(rm, reserved, avail, NumaIds \ BoundNumas(rm), enable,
                ReservePoolSize)
  \/ InitScenario

\* any snapshot, also one where regions share a pool name or a NUMA id
InitAny ==
  \E rm \in RegionMaps, reserved \in FewReservedMaps, avail \in FewAvailMaps,
     nonBinding \in SUBSET NumaIds, enable \in BOOLEAN :
    InitWith(rm, reserved, avail, nonBinding, enable, ReservePoolSize)

\* one call of AssembleProvision
NextCall ==
  \/ Begin
  \/ \E r \in RegionNames : VisitRegion(r)
  \/ Finish

\* calls of AssembleProvision, one after the other, and the region subsystem
Next ==
  \/ Begin
  \/ \E r \in RegionNames \cup {IgnoredRegionName} : VisitRegion(r)
  \/ Finish
  \/ Return
  \/ \E reg \in IgnoredRegions : AddIgnoredRegion(reg)

\* the call of regulatePoolSizes alone, on any demand mapping
RegulatorPools == {"share", "r1", "r2"}

InitRegulate ==
  \E keys \in SUBSET RegulatorPools :
    \E d \in [keys -> CPUSizes], a \in 0 .. (2 * MaxAvail), e \in BOOLEAN :
      /\ demand = d
      /\ shareAndIsolatedPoolAvailable = a
      /\ nodeEnableReclaim = e
      /\ regionMap = EmptyMap
      /\ reservedForReclaim = EmptyMap
      /\ numaAvailable = EmptyMap
      /\ nonBindingNumas = {}
      /\ reservePoolSize = ReservePoolSize
      /\ pc = "idle"
      /\ todo = {}
      /\ calculationResult = EmptyMap
      /\ shares = 0
      /\ isolationUppers = 0
      /\ sharePoolSizes = EmptyMap
      /\ isolationUpperSizes = EmptyMap
      /\ isolationLowerSizes = EmptyMap
      /\ shareAndIsolatePoolSizes = EmptyMap
      /\ ret = NoResult
      /\ prev = NoResult
      /\ calls = 0
      /\ added = FALSE

Regulate ==
  /\ pc = "idle"
  /\ LET regulated == regulatePoolSizes(demand, shareAndIsolatedPoolAvailable,
                                        nodeEnableReclaim)
     IN  /\ shareAndIsolatePoolSizes' = regulated.sizes
         /\ ret' = [PoolEntries |-> EmptyMap, boundUpper |-> regulated.boundUpper,
                    err |-> NoError]
  /\ pc' = "done"
  /\ UNCHANGED <<inputs, todo, calculationResult, shares, isolationUppers,
                 sharePoolSizes, isolationUpperSizes, isolationLowerSizes,
                 shareAndIsolatedPoolAvailable, demand, prev, calls, added>>

NextRegulate == Regulate

Spec == Init /\ [][NextCall]_vars

SpecRegulate == InitRegulate /\ [][NextRegulate]_vars

SpecAny == InitAny /\ [][Next]_vars

\* ---------------------------------------------------------------- properties

Done == pc = "done"
Succeeded == pc = "done" /\ ret.err = NoError
Failed == pc = "done" /\ ret.err # NoError

\* the error a visit of region reg ends with, read off the region alone
ErrorOf(reg) ==
  IF reg.provErr THEN RegionProvisionError
  ELSE IF reg.Type = QoSRegionTypeDedicatedNumaExclusive /\ Cardinality(reg.Pods) # 1
       THEN InvalidRegionAssignment
  ELSE IF reg.Type = QoSRegionTypeDedicatedNumaExclusive /\ reg.podReclaim = "error"
       THEN ReclaimPolicyLookupError
  ELSE NoError

FailingNames == { r \in DOMAIN regionMap : ErrorOf(regionMap[r]) # NoError }

\* a pool's entry at a NUMA id, and whether it has one
HasEntry(entries, pool, numa) ==
  pool \in DOMAIN entries /\ numa \in DOMAIN entries[pool]
EntryIs(entries, pool, numa, size) ==
  HasEntry(entries, pool, numa) /\ entries[pool][numa] = size

\* a map's value at a key, zero for a missing key
At(m, k) == IF k \in DOMAIN m THEN m[k] ELSE 0

\* C1: a call over a snapshot with a failing region returns no pool entry at
\* all (not the reserve entry, not the entries of the regions visited before),
\* boundUpper = FALSE and the error of a region the range had not finished:
\* the first error ends the call
C1_FailureReturnsZeroValue ==
  (Done /\ FailingNames # {}) =>
     /\ ret.PoolEntries = EmptyMap
     /\ ret.boundUpper = FALSE
     /\ \E r \in todo \cap FailingNames : ret.err = ErrorOf(regionMap[r])

\* C1 witness: the call failed after an earlier DedicatedNumaExclusive region
\* had written its reclaim entry beside the reserve entry
C1_Witness ==
  /\ Failed
  /\ HasEntry(calculationResult, PoolNameReserve, FakedNUMAID)
  /\ \E n \in NumaIds : HasEntry(calculationResult, PoolNameReclaim, n)
  /\ ret.PoolEntries = EmptyMap

BadDedicatedNames ==
  { r \in DOMAIN regionMap :
      /\ regionMap[r].Type = QoSRegionTypeDedicatedNumaExclusive
      /\ ~regionMap[r].provErr
      /\ Cardinality(regionMap[r].Pods) # 1 }

\* C2 as stated: a DedicatedNumaExclusive region with zero or two pods whose
\* GetProvision succeeded makes the call return the zero value and an
\* InvalidRegionAssignment error
C2_Original ==
  (Done /\ BadDedicatedNames # {}) =>
     ret = [PoolEntries |-> EmptyMap, boundUpper |-> FALSE,
            err |-> InvalidRegionAssignment]

\* C2 amended: such a region makes the call return the zero value and an
\* error, which is InvalidRegionAssignment unless it is the error of another
\* failing region; and InvalidRegionAssignment is returned only when some
\* DedicatedNumaExclusive region does not hold exactly one pod
C2_SingletonCheck ==
  /\ (Done /\ BadDedicatedNames # {}) =>
        /\ ret.PoolEntries = EmptyMap
        /\ ret.boundUpper = FALSE
        /\ \/ ret.err = InvalidRegionAssignment
           \/ \E r \in FailingNames \ BadDedicatedNames :
                ret.err = ErrorOf(regionMap[r])
  /\ (Done /\ FailingNames # {} /\ FailingNames \subseteq BadDedicatedNames) =>
        ret.err = InvalidRegionAssignment
  /\ (Done /\ ret.err = InvalidRegionAssignment) => BadDedicatedNames # {}

\* C2 witness: a region with no pod at all ended the call
C2_Witness ==
  /\ Done
  /\ ret.err = InvalidRegionAssignment
  /\ \E r \in BadDedicatedNames : regionMap[r].Pods = {}

\* C3 as stated: the regulated sizes sum to at most available, and to
\* exactly available only when the demand was strictly above available
C3_Original ==
  Succeeded =>
     /\ SumUpMapValues(shareAndIsolatePoolSizes) <= shareAndIsolatedPoolAvailable
     /\ SumUpMapValues(shareAndIsolatePoolSizes) = shareAndIsolatedPoolAvailable
          => SumUpMapValues(demand) > shareAndIsolatedPoolAvailable

\* C3 amended: the regulated sizes sum to at most available, and to exactly
\* available only when the demand was at least available
C3_SumBound ==
  Succeeded =>
     /\ SumUpMapValues(shareAndIsolatePoolSizes) <= shareAndIsolatedPoolAvailable
     /\ SumUpMapValues(shareAndIsolatePoolSizes) = shareAndIsolatedPoolAvailable
          => SumUpMapValues(demand) >= shareAndIsolatedPoolAvailable

\* C3 witness: a demand above available was cut down to available
C3_Witness ==
  /\ Succeeded
  /\ SumUpMapValues(demand) > shareAndIsolatedPoolAvailable
  /\ shareAndIsolatedPoolAvailable > 0
  /\ shareAndIsolatePoolSizes # demand
  /\ SumUpMapValues(shareAndIsolatePoolSizes) = shareAndIsolatedPoolAvailable

\* the totals of the snapshot, read off the regions
ShareNames == NamesOfType(regionMap, QoSRegionTypeShare)
IsolationNames == NamesOfType(regionMap, QoSRegionTypeIsolation)
DedicatedNames == NamesOfType(regionMap, QoSRegionTypeDedicatedNumaExclusive)
ShareTotal ==
  SumOver(ShareNames, [r \in ShareNames |-> regionMap[r].NonReclaimedCPUSize])
UpperTotal ==
  SumOver(IsolationNames,
          [r \in IsolationNames |-> regionMap[r].NonReclaimedCPUSizeUpper])
AvailableTotal == SumOver(nonBindingNumas, numaAvailable)
ReservedTotal == SumOver(nonBindingNumas, reservedForReclaim)

\* C4: in a successful call, when the share sizes and the isolation upper
\* sizes fit into the available total, every Isolation region's node-wide
\* entry is its upper size, every share pool's entry its NonReclaimedCPUSize
\* and boundUpper is TRUE; otherwise the demand handed to the regulator maps
\* every Isolation region to its lower size
C4_Fallback ==
  Succeeded =>
     IF ShareTotal + UpperTotal <= AvailableTotal
     THEN /\ \A r \in IsolationNames :
               EntryIs(ret.PoolEntries, r, FakedNUMAID,
                       regionMap[r].NonReclaimedCPUSizeUpper)
          /\ \A r \in ShareNames :
               EntryIs(ret.PoolEntries, regionMap[r].OwnerPoolName, FakedNUMAID,
                       regionMap[r].NonReclaimedCPUSize)
          /\ ret.boundUpper = TRUE
     ELSE \A r \in IsolationNames :
            r \in DOMAIN demand /\ demand[r] = regionMap[r].NonReclaimedCPUSizeLower

\* C4 witness: a Share and an Isolation region fill the available total
\* exactly, and the Isolation region got its upper, not its lower, size
C4_Witness ==
  /\ Succeeded
  /\ ShareNames # {} /\ IsolationNames # {}
  /\ ShareTotal > 0
  /\ ShareTotal + UpperTotal = AvailableTotal
  /\ \A r \in IsolationNames :
       regionMap[r].NonReclaimedCPUSizeLower < regionMap[r].NonReclaimedCPUSizeUpper
  /\ ret.boundUpper = TRUE

\* C5: boundUpper of a successful call is TRUE exactly when the isolation
\* upper sizes were the demand and the regulator left them as they were; it
\* is never TRUE in a call that fell back to the lower sizes
C5_BoundUpperMeansUpperHonored ==
  Succeeded =>
     /\ ret.boundUpper <=>
          /\ ~(shares + isolationUppers > shareAndIsolatedPoolAvailable)
          /\ shareAndIsolatePoolSizes = MergeMapInt(sharePoolSizes, isolationUpperSizes)
     /\ (shares + isolationUppers > shareAndIsolatedPoolAvailable)
          => ret.boundUpper = FALSE

\* the sum of the node-wide entries of the share and isolation pools of the
\* result
RegulatedTotal ==
  LET pools == (DOMAIN ret.PoolEntries) \ {PoolNameReserve, PoolNameReclaim}
  IN  SumOver(pools, [p \in pools |-> At(ret.PoolEntries[p], FakedNUMAID)])

\* C6: the node-wide reclaim entry of a successful call is
\* available - regulated sizes + reservation over the non-binding NUMA ids
\* when node reclaim is enabled, and the reservation alone when it is not;
\* ids missing from a map count as zero
C6_NodeWideReclaim ==
  Succeeded =>
     EntryIs(ret.PoolEntries, PoolNameReclaim, FakedNUMAID,
             IF nodeEnableReclaim
             THEN AvailableTotal - RegulatedTotal + ReservedTotal
             ELSE ReservedTotal)

\* C6 witness: the scenario numaAvailable {0:10, 1:10}, reservedForReclaim
\* {0:1, 1:1}, nonBindingNumas {1}, one Share region of size 5, reclaim
\* enabled: share = 5, reclaim = 6, boundUpper = TRUE
C6_Witness ==
  /\ Succeeded
  /\ numaAvailable = [n \in NumaIds |-> 10]
  /\ reservedForReclaim = [n \in NumaIds |-> 1]
  /\ nonBindingNumas = {1}
  /\ nodeEnableReclaim
  /\ EntryIs(ret.PoolEntries, "share", FakedNUMAID, 5)
  /\ EntryIs(ret.PoolEntries, PoolNameReclaim, FakedNUMAID, 6)
  /\ EntryIs(ret.PoolEntries, PoolNameReserve, FakedNUMAID, 2)
  /\ ret.boundUpper = TRUE

\* C7: after a successful call, a DedicatedNumaExclusive region with one pod,
\* bound to NUMA n, has the reclaim entry at n that its pod's reclaim policy
\* asks for: with reclaim disabled the reservation of n when that is positive
\* and no entry at n when it is zero; with reclaim enabled
\* numaAvailable[n] - NonReclaimedCPUSize + the reservation, negative or not
C7_DedicatedReclaim ==
  Succeeded =>
     \A r \in DedicatedNames :
       \A n \in regionMap[r].BindingNumas :
         IF regionMap[r].podReclaim = "enabled"
         THEN EntryIs(ret.PoolEntries, PoolNameReclaim, n,
                      At(numaAvailable, n) - regionMap[r].NonReclaimedCPUSize
                        + At(reservedForReclaim, n))
         ELSE IF At(reservedForReclaim, n) > 0
              THEN EntryIs(ret.PoolEntries, PoolNameReclaim, n,
                           At(reservedForReclaim, n))
              ELSE ~HasEntry(ret.PoolEntries, PoolNameReclaim, n)

\* C7 witness: one region's pod has reclaim enabled and its entry is
\* negative, another's has it disabled on a NUMA id with no reservation
C7_Witness ==
  /\ Succeeded
  /\ \E r \in DedicatedNames :
       /\ regionMap[r].podReclaim = "enabled"
       /\ \E n \in regionMap[r].BindingNumas :
            HasEntry(ret.PoolEntries, PoolNameReclaim, n)
              /\ ret.PoolEntries[PoolNameReclaim][n] < 0
  /\ \E r \in DedicatedNames :
       /\ regionMap[r].podReclaim = "disabled"
       /\ \E n \in regionMap[r].BindingNumas :
            ~HasEntry(ret.PoolEntries, PoolNameReclaim, n)

\* the result of this call is that of the call before it
SameAsPrevious ==
  /\ ret.PoolEntries = prev.PoolEntries
  /\ ret.boundUpper = prev.boundUpper
  /\ (ret.err = NoError) <=> (prev.err = NoError)

SecondCallSameInputs == Done /\ calls >= 1 /\ ~added
SecondCallRegionAdded == Done /\ calls >= 1 /\ added

\* C8 as stated: two calls on the same inputs return the same PoolEntries,
\* boundUpper and success or failure, whatever the order of the range and
\* whatever keys the regions share
C8_Original == SecondCallSameInputs => SameAsPrevious

\* C8 amended: they do when the Share regions own distinct pools and the
\* DedicatedNumaExclusive regions bind distinct NUMA ids
C8_Deterministic ==
  (/\ SecondCallSameInputs
   /\ SharePoolsDistinct(regionMap)
   /\ DedicatedNumasDistinct(regionMap)) => SameAsPrevious

\* C8 witness: a second successful call over two Isolation regions, or an
\* Isolation region named like the pool of a Share region, agreed with the
\* first
C8_Witness ==
  /\ SecondCallSameInputs
  /\ Succeeded
  /\ SharePoolsDistinct(regionMap) /\ DedicatedNumasDistinct(regionMap)
  /\ ~IsolationNamesApart(regionMap)
  /\ SameAsPrevious

\* C9 as stated: adding a region of an unhandled type changes neither
\* PoolEntries nor boundUpper nor whether the call fails, even when the
\* region's GetProvision fails
C9_Original ==
  (/\ SecondCallRegionAdded
   /\ SharePoolsDistinct(regionMap)
   /\ DedicatedNumasDistinct(regionMap)) => SameAsPrevious

\* C9 amended: it changes none of them when the region's GetProvision
\* succeeds (on a snapshot whose Share regions own distinct pools and whose
\* DedicatedNumaExclusive regions bind distinct NUMA ids, where the order of
\* the range changes nothing either); when it fails, the call fails with the
\* zero value
C9_IgnoredRegion ==
  /\ (/\ SecondCallRegionAdded
      /\ SharePoolsDistinct(regionMap)
      /\ DedicatedNumasDistinct(regionMap)
      /\ ~regionMap[IgnoredRegionName].provErr) => SameAsPrevious
  /\ (SecondCallRegionAdded /\ regionMap[IgnoredRegionName].provErr) =>
        Failed /\ ret.PoolEntries = EmptyMap /\ ret.boundUpper = FALSE

\* C9 witness: the call after the region was added succeeded with entries
\* of a Share region and a DedicatedNumaExclusive region
C9_Witness ==
  /\ SecondCallRegionAdded
  /\ Succeeded
  /\ regionMap[IgnoredRegionName].Type = QoSRegionTypeOther
  /\ ShareNames # {} /\ DedicatedNames # {}
  /\ SameAsPrevious

\* C10 as stated: at the fallback decision shares + isolationUppers is the
\* sum of the merged share and isolation upper sizes, for every snapshot
C10_Original ==
  Succeeded =>
     shares + isolationUppers
       = SumUpMapValues(MergeMapInt(sharePoolSizes, isolationUpperSizes))

\* C10 amended: it is when the Share regions own distinct pools and no
\* Isolation region is named like a share pool
C10_TotalsAgree ==
  (/\ Succeeded
   /\ SharePoolsDistinct(regionMap)
   /\ IsolationNamesApart(regionMap)) =>
     shares + isolationUppers
       = SumUpMapValues(MergeMapInt(sharePoolSizes, isolationUpperSizes))

\* C10 witness: two Share regions with distinct pools, both of a positive size
C10_Witness ==
  /\ Succeeded
  /\ Cardinality(ShareNames) = 2
  /\ SharePoolsDistinct(regionMap)
  /\ \A r \in ShareNames : regionMap[r].NonReclaimedCPUSize > 0
  /\ shares = ShareTotal

====
